---- MODULE Spec2Model ----
(***************************************************************************)
(* NodeView (src/assets/app/js/nodeview.js): a collapsible tree view.      *)
(*                                                                         *)
(* The controller keeps a registry nodeData from node identifier to node   *)
(* record, a current root identifier, and the rendered g.node / path.link  *)
(* elements of its container.  A record is the host's own object: the      *)
(* controller stores the object it is given and writes _children and       *)
(* isOpened into it.  The model keeps, per identifier, the state of the    *)
(* object registered under it, and notes in last.replaced when an          *)
(* operation puts another object in its place.                             *)
(*                                                                         *)
(* The four host callbacks (get-children, prune-nodes, add-nodes,          *)
(* update-nodes) are the environment; every call is logged in last.calls.  *)
(* The host's data is a tree with unique identifiers.  The layout          *)
(* (d3.layout.tree) and the geometry of the transitions belong to the      *)
(* external library: coordinates are not modelled.  The data join of d3 v3 *)
(* (selection.data with a key function) is modelled by what it does to the *)
(* set of elements: the update, enter and exit selections.                 *)
(***************************************************************************)
EXTENDS Integers, Sequences, FiniteSets

\* ---------------------------------------------------------------- bounds
\* The number of nodes of the host's data.
NumIds == 3
\* The number of get-children promises that may be pending at once.
MaxPending == 2
\* The number of node sizes resize is called with.
MaxSize == 2

\* ------------------------------------------------------------ JS values
Ids == 1..NumIds

\* JavaScript undefined, for an identifier (this.currentId before the first
\* setRoot, the argument of setRoot(undefined)).  It is falsy.
NoId == 0

\* An optional value: Undefined, or Some(v).
Undefined == {}
Some(v) == {v}
Val(o) == CHOOSE v \in o : TRUE

\* An object {id: ...} as the host creates it: _children is undefined and
\* isOpened is undefined, which is falsy (FALSE stands for both).
NewNode == [children |-> Undefined, isOpened |-> FALSE]

\* !x
Not(b) == ~b

\* A variant of Put that starts a new map for every entry it stores.
PutFresh(f, k, v) == [x \in {k} |-> v]

\* obj[k] = v on a JavaScript object used as a map.
Put(f, k, v) == [x \in (DOMAIN f) \cup {k} |-> IF x = k THEN v ELSE f[x]]

\* {} : the empty map.
EmptyMap == [x \in {} |-> NewNode]

\* ------------------------------------------------------- the host's data
\* The host's tree: node 1 is its root and node i has the children 2i, 2i+1.
HostParent(id) == id \div 2

\* What get-children(id) resolves with when it is defined: the children of id
\* (new objects, one per child), in order; an empty sequence for a leaf.
HostChildren(id) ==
    LET a == 2 * id
        b == 2 * id + 1
    IN  (IF a \in Ids THEN <<a>> ELSE <<>>) \o (IF b \in Ids THEN <<b>> ELSE <<>>)

Range(s) == {s[i] : i \in DOMAIN s}

\* The number of promises in p.
RECURSIVE SumOver(_, _)
SumOver(p, S) ==
    IF S = {} THEN 0
    ELSE LET x == CHOOSE y \in S : TRUE IN p[x] + SumOver(p, S \ {x})
Total(p) == SumOver(p, DOMAIN p)

VARIABLES
    nodeData,   \* this.nodeData: identifier -> the record registered under it
    currentId,  \* this.currentId (NoId while undefined)
    nextId,     \* this.nextId
    nodeSize,   \* this.tree.nodeSize()
    pending,    \* get-children promises not yet settled, per identifier
    held,       \* a root object the host kept across reload(), with its identifier
    nodeElems,  \* keys of the g.node elements in the container
    nodeExit,   \* those of them in an exit transition (to be removed)
    linkElems,  \* keys of the path.link elements in the container
    linkExit,   \* those of them in an exit transition (to be removed)
    last        \* the last operation: its name, argument, outcome and callbacks

vars == <<nodeData, currentId, nextId, nodeSize, pending, held,
          nodeElems, nodeExit, linkElems, linkExit, last>>

dom == <<nodeElems, nodeExit, linkElems, linkExit>>

\* ---------------------------------------------------------- the log
NoCalls == <<>>
Call(cb, id, keys) == [cb |-> cb, id |-> id, keys |-> keys]
GetChildrenCall(id) == Call("get-children", id, {})
PruneCall(id) == Call("prune-nodes", id, {})
\* A variant of AddCall in which the host's add-nodes is never called: the
\* entering elements are only refreshed.
AddCallAsUpdate(keys) == Call("update-nodes", NoId, keys)
AddCall(keys) == Call("add-nodes", NoId, keys)
UpdateCall(keys) == Call("update-nodes", NoId, keys)

\* op: the operation; id: its argument (for setRoot, root.id; for resize, the
\* node size); err: it threw;
\* calls: the callbacks it made, in order; root: the object given to setRoot;
\* result: what the promise resolved with; replaced: the identifiers whose
\* registered object was replaced by another object; pruned: what
\* prune-nodes returned, when it was called (kept while the transitions of
\* that pass end).
Op(op, id, err, calls, root, result, replaced) ==
    [op |-> op, id |-> id, err |-> err, calls |-> calls, root |-> root,
     result |-> result, replaced |-> replaced, pruned |-> Undefined]

Quiet(op, id, err) == Op(op, id, err, NoCalls, Undefined, Undefined, {})

CountCalls(calls, cb) == Cardinality({i \in DOMAIN calls : calls[i].cb = cb})
Renders(l) == CountCalls(l.calls, "prune-nodes")
Fetches(l) == CountCalls(l.calls, "get-children")

Init ==
    /\ nodeData = EmptyMap
    /\ currentId = NoId
    /\ nextId = 0
    /\ nodeSize = 1
    /\ pending = [i \in Ids |-> 0]
    /\ held = Undefined
    /\ nodeElems = {}
    /\ nodeExit = {}
    /\ linkElems = {}
    /\ linkExit = {}
    /\ last = Quiet("init", NoId, FALSE)

\* ------------------------------------------------------------ prune-nodes
\* A variant of Fetched that takes an empty sequence of children for "not
\* fetched".
FetchedNonEmpty(nd, id) ==
    /\ id \in DOMAIN nd
    /\ nd[id].children # Undefined
    /\ Val(nd[id].children) # <<>>

\* this.nodeData[id]._children !== undefined
Fetched(nd, id) == id \in DOMAIN nd /\ nd[id].children # Undefined

\* The branch below id is shown: its children were fetched and it is opened.
IsOpen(nd, id) == Fetched(nd, id) /\ nd[id].isOpened

\* The host's view of the tree rooted at id, "reflecting which branches are
\* currently expanded": id, and below every opened node its children.
RECURSIVE Expanded(_, _)
Expanded(nd, id) ==
    {id} \cup (IF IsOpen(nd, id)
               THEN UNION {Expanded(nd, c) : c \in Range(Val(nd[id].children))}
               ELSE {})

\* prune-nodes returned undefined: there is nothing to lay out.
NoTree == {}

\* What prune-nodes(newRoot) may return: undefined, or the expanded tree
\* (given as the set of its nodes; its root is rootId, its edges the host's).
PruneNodes(nd, rootId) == {NoTree, Expanded(nd, rootId)}

\* ------------------------------------------------------------ _update
\* d.id || (d.id = this.nextId++): the key of a node is its identifier; only
\* a node without one is given the next number.
Falsy(id) == id = NoId
KeyOf(id, nid) == IF Falsy(id) THEN nid ELSE id

\* this.tree.links(nodeData): one link per node that has its parent in the
\* layout, keyed by d.target.id.
LinkTargets(tree, rootId) == tree \ {rootId}

\* selection.data(data, key) of d3 v3 on the elements with keys elems: the
\* update, enter and exit selections.
JoinUpdate(elems, data) == elems \cap data
\* A variant of JoinEnter in which no element enters.
JoinEnterNone(elems, data) == {}
JoinEnter(elems, data) == data \ elems
JoinExit(elems, data) == elems \ data

\* NodeView._pos(this.nodeData[id]) throws a TypeError when no record is
\* registered under id.
PosThrows(nd, id) == id \notin DOMAIN nd

\* _update(rootId, toggleId) when this.nodeData[toggleId || this.currentId]
\* exists.  nd is the registry as the caller left it, log what the caller
\* has done so far.
Update(rootId, nd, log) ==
    \E tree \in PruneNodes(nd, rootId) :
        LET data == {KeyOf(n, nextId) : n \in tree}
            linkData == {KeyOf(n, nextId) : n \in LinkTargets(tree, rootId)}
        IN /\ currentId' = rootId
           /\ nextId' = nextId + Cardinality({n \in tree : Falsy(n)})
           /\ nodeElems' = JoinUpdate(nodeElems, data) \cup JoinEnter(nodeElems, data)
                               \cup JoinExit(nodeElems, data)
           /\ nodeExit' = JoinExit(nodeElems, data)
           /\ linkElems' = JoinUpdate(linkElems, linkData) \cup JoinEnter(linkElems, linkData)
                               \cup JoinExit(linkElems, linkData)
           /\ linkExit' = JoinExit(linkElems, linkData)
           /\ last' = [log EXCEPT
                         !.calls = @ \o <<PruneCall(rootId),
                                          UpdateCall(JoinUpdate(nodeElems, data)),
                                          AddCall(JoinEnter(nodeElems, data)),
                                          UpdateCall(JoinEnter(nodeElems, data))>>,
                         !.pruned = Some(tree)]

\* ------------------------------------------------------------- setRoot
\* A variant of SetRootUndefined without the guard's early return: the
\* undefined root becomes the current one.
SetRootUndefinedClearsRoot ==
    /\ currentId' = NoId
    /\ last' = Quiet("setRoot", NoId, FALSE)
    /\ UNCHANGED <<nodeData, nextId, nodeSize, pending, held, dom>>

\* setRoot(undefined): if (!root) return.
SetRootUndefined ==
    /\ last' = Quiet("setRoot", NoId, FALSE)
    /\ UNCHANGED <<nodeData, currentId, nextId, nodeSize, pending, held, dom>>

\* The objects with identifier id the host can pass to setRoot: a new one,
\* the one registered under id, or the root it kept across a reload.
RootSources == {"new", "registered", "held"}

HasRootObject(id, src) ==
    \/ src = "new"
    \/ src = "registered" /\ id \in DOMAIN nodeData
    \/ src = "held" /\ held # Undefined /\ Val(held).id = id

RootObject(id, src) ==
    IF src = "registered" THEN nodeData[id]
    ELSE IF src = "held" THEN Val(held).node
    ELSE NewNode

\* A variant of SetRoot that keeps the record already registered under id.
SetRootKeepsRegistered(id, src) ==
    /\ HasRootObject(id, src)
    /\ LET root == RootObject(id, src)
           nd == IF id \in DOMAIN nodeData THEN nodeData ELSE Put(nodeData, id, root)
       IN /\ nodeData' = nd
          /\ Update(id, nd, Op("setRoot", id, FALSE, NoCalls, Some(root), Undefined, {}))
    /\ held' = Undefined
    /\ UNCHANGED <<nodeSize, pending>>

\* setRoot(root) with root.id = id, root being the host's object src: store
\* it, make it current, update.
SetRoot(id, src) ==
    /\ HasRootObject(id, src)
    /\ LET root == RootObject(id, src)
           nd == Put(nodeData, id, root)
       IN /\ nodeData' = nd
          /\ Update(id, nd, Op("setRoot", id, FALSE, NoCalls, Some(root), Undefined,
                               IF id \in DOMAIN nodeData /\ src # "registered"
                               THEN {id} ELSE {}))
    /\ held' = Undefined
    /\ UNCHANGED <<nodeSize, pending>>

\* -------------------------------------------------------------- toggle
\* toggle(id) on an identifier that is not registered:
\* this.nodeData[id]._children throws a TypeError.
ToggleUnknown(id) ==
    /\ id \notin DOMAIN nodeData
    /\ last' = Quiet("toggle", id, TRUE)
    /\ UNCHANGED <<nodeData, currentId, nextId, nodeSize, pending, held, dom>>

\* A variant of ToggleFetch that issues no second request while one is
\* pending for id.
ToggleFetchDeduplicated(id) ==
    /\ id \in DOMAIN nodeData
    /\ ~Fetched(nodeData, id)
    /\ Total(pending) < MaxPending
    /\ pending' = [pending EXCEPT ![id] = IF @ > 0 THEN @ ELSE @ + 1]
    /\ last' = Op("toggle", id, FALSE,
                  IF pending[id] > 0 THEN NoCalls ELSE <<GetChildrenCall(id)>>,
                  Undefined, Undefined, {})
    /\ UNCHANGED <<nodeData, currentId, nextId, nodeSize, held, dom>>

\* toggle(id), _children undefined: call get-children(id); the promise is
\* pending until the host settles it.
ToggleFetch(id) ==
    /\ id \in DOMAIN nodeData
    /\ ~Fetched(nodeData, id)
    /\ Total(pending) < MaxPending
    /\ pending' = [pending EXCEPT ![id] = @ + 1]
    /\ last' = Op("toggle", id, FALSE, <<GetChildrenCall(id)>>, Undefined, Undefined, {})
    /\ UNCHANGED <<nodeData, currentId, nextId, nodeSize, held, dom>>

\* toggle(id), _children undefined, and the host's get-children throws (or
\* returns no promise, so that .then throws): toggle lets the exception
\* through; no promise is pending and nothing is assigned.
ToggleFetchThrows(id) ==
    /\ id \in DOMAIN nodeData
    /\ ~Fetched(nodeData, id)
    /\ last' = Op("toggle", id, TRUE, <<GetChildrenCall(id)>>, Undefined, Undefined, {})
    /\ UNCHANGED <<nodeData, currentId, nextId, nodeSize, pending, held, dom>>

\* A variant of Flip that only ever opens.
FlipOpensOnly(nd, id) == [nd EXCEPT ![id].isOpened = TRUE]

\* this.nodeData[id].isOpened = !this.nodeData[id].isOpened
Flip(nd, id) == [nd EXCEPT ![id].isOpened = Not(@)]

\* toggle(id), _children defined: flip isOpened and update the view.
ToggleFlip(id) ==
    /\ Fetched(nodeData, id)
    /\ LET nd == Flip(nodeData, id)
       IN /\ nodeData' = nd
          /\ Update(currentId, nd, Quiet("toggle", id, FALSE))
    /\ UNCHANGED <<nodeSize, pending, held>>

\* ------------------------------------------- the then-callback of toggle
\* children.forEach(child => { this.nodeData[child.id] = child; })
RECURSIVE StoreChildren(_, _)
StoreChildren(nd, ids) ==
    IF ids = <<>> THEN nd
    ELSE StoreChildren(Put(nd, Head(ids), NewNode), Tail(ids))

\* this.nodeData[id]._children = children
SetChildren(nd, id, ids) == [nd EXCEPT ![id].children = Some(ids)]

\* A get-children(id) promise resolves with children: _children is set on the
\* registered record, every child is stored, and toggle(id) runs again, now
\* in its else branch.
Resolve(id) ==
    /\ pending[id] > 0
    /\ id \in DOMAIN nodeData
    /\ LET ids == HostChildren(id)
           nd == Flip(StoreChildren(SetChildren(nodeData, id, ids), ids), id)
       IN /\ nodeData' = nd
          /\ Update(currentId, nd, Op("resolve", id, FALSE, NoCalls, Undefined, Some(ids),
                                      Range(ids) \cap DOMAIN nodeData))
    /\ pending' = [pending EXCEPT ![id] = @ - 1]
    /\ UNCHANGED <<nodeSize, held>>

\* The same when id is not registered any more:
\* this.nodeData[id]._children = children throws a TypeError inside the
\* callback, and nothing is stored.
ResolveUnknown(id) ==
    /\ pending[id] > 0
    /\ id \notin DOMAIN nodeData
    /\ pending' = [pending EXCEPT ![id] = @ - 1]
    /\ last' = Op("resolve", id, TRUE, NoCalls, Undefined, Some(HostChildren(id)), {})
    /\ UNCHANGED <<nodeData, currentId, nextId, nodeSize, held, dom>>

\* A variant of ResolveUndefined that takes undefined for "no children".
ResolveUndefinedAsEmpty(id) ==
    /\ pending[id] > 0
    /\ pending' = [pending EXCEPT ![id] = @ - 1]
    /\ nodeData' = IF id \in DOMAIN nodeData THEN SetChildren(nodeData, id, <<>>)
                   ELSE nodeData
    /\ last' = Quiet("resolveUndefined", id, FALSE)
    /\ UNCHANGED <<currentId, nextId, nodeSize, held, dom>>

\* A get-children(id) promise resolves with undefined: nothing is done.
ResolveUndefined(id) ==
    /\ pending[id] > 0
    /\ pending' = [pending EXCEPT ![id] = @ - 1]
    /\ last' = Quiet("resolveUndefined", id, FALSE)
    /\ UNCHANGED <<nodeData, currentId, nextId, nodeSize, held, dom>>

\* A variant of Reject in which the controller calls get-children again.
RejectRetries(id) ==
    /\ pending[id] > 0
    /\ last' = Op("reject", id, TRUE, <<GetChildrenCall(id)>>, Undefined, Undefined, {})
    /\ UNCHANGED <<nodeData, currentId, nextId, nodeSize, pending, held, dom>>

\* A get-children(id) promise is rejected: toggle attaches no rejection
\* handler.
Reject(id) ==
    /\ pending[id] > 0
    /\ pending' = [pending EXCEPT ![id] = @ - 1]
    /\ last' = Quiet("reject", id, TRUE)
    /\ UNCHANGED <<nodeData, currentId, nextId, nodeSize, held, dom>>

\* ------------------------------------------------------ redraw, resize
\* redraw() without a current id: nothing.
RedrawNone ==
    /\ Falsy(currentId)
    /\ last' = Quiet("redraw", NoId, FALSE)
    /\ UNCHANGED <<nodeData, currentId, nextId, nodeSize, pending, held, dom>>

\* redraw() with a current id that is registered.
Redraw ==
    /\ ~Falsy(currentId)
    /\ ~PosThrows(nodeData, currentId)
    /\ Update(currentId, nodeData, Quiet("redraw", NoId, FALSE))
    /\ UNCHANGED <<nodeData, nodeSize, pending, held>>

\* redraw() with a current id that is not registered: _update throws on its
\* first line.
RedrawThrows ==
    /\ ~Falsy(currentId)
    /\ PosThrows(nodeData, currentId)
    /\ last' = Quiet("redraw", NoId, TRUE)
    /\ UNCHANGED <<nodeData, currentId, nextId, nodeSize, pending, held, dom>>

\* resize(nodeWidth, nodeHeight) with a registered current id.
Resize(size) ==
    /\ ~PosThrows(nodeData, currentId)
    /\ nodeSize' = size
    /\ Update(currentId, nodeData, Quiet("resize", size, FALSE))
    /\ UNCHANGED <<nodeData, pending, held>>

\* resize without a registered current id: the node size is set, then
\* _update throws on its first line.
ResizeThrows(size) ==
    /\ PosThrows(nodeData, currentId)
    /\ nodeSize' = size
    /\ last' = Quiet("resize", size, TRUE)
    /\ UNCHANGED <<nodeData, currentId, nextId, pending, held, dom>>

\* --------------------------------------------------- centerNode, reload
\* centerNode(): a transition of the zoom behavior to translate [0,0],
\* scale 1; nothing of the controller's state is assigned.
CenterNode ==
    /\ last' = Quiet("centerNode", NoId, FALSE)
    /\ UNCHANGED <<nodeData, currentId, nextId, nodeSize, pending, held, dom>>

\* reload(): nextId, the container, the layout and the registry are made
\* anew.  this.currentId is not assigned and pending promises stay pending.
\* The host still has the root object it had passed, with what was written
\* into it.
Reload ==
    /\ nextId' = 0
    /\ nodeElems' = {}
    /\ nodeExit' = {}
    /\ linkElems' = {}
    /\ linkExit' = {}
    /\ nodeSize' = 1
    /\ nodeData' = EmptyMap
    /\ held' = IF currentId \in DOMAIN nodeData
               THEN Some([id |-> currentId, node |-> nodeData[currentId]])
               ELSE held
    /\ last' = Quiet("reload", NoId, FALSE)
    /\ UNCHANGED <<currentId, pending>>

\* The end of an exit transition runs no code of the controller: the log
\* keeps what prune-nodes returned in the pass whose transitions these are.
TransitionLog == [Quiet("transitionEnd", NoId, FALSE) EXCEPT !.pruned = last.pruned]

\* The exit transition of the g.node elements ends while that of the
\* path.link elements, created later in the same pass with the same duration,
\* is still running: .remove() takes the exiting nodes out, the exiting
\* links stay until their own transition ends.
NodeTransitionEnd ==
    /\ nodeExit # {}
    /\ linkExit # {}
    /\ nodeElems' = nodeElems \ nodeExit
    /\ nodeExit' = {}
    /\ last' = TransitionLog
    /\ UNCHANGED <<nodeData, currentId, nextId, nodeSize, pending, held,
                   linkElems, linkExit>>

\* The exit transitions still running end in one timer frame: .remove()
\* takes the exiting elements out.  (The transition of the links starts no
\* earlier than that of the nodes, so it never ends before it.)
TransitionEnd ==
    /\ nodeExit \cup linkExit # {}
    /\ nodeElems' = nodeElems \ nodeExit
    /\ linkElems' = linkElems \ linkExit
    /\ nodeExit' = {}
    /\ linkExit' = {}
    /\ last' = TransitionLog
    /\ UNCHANGED <<nodeData, currentId, nextId, nodeSize, pending, held>>

Next ==
    \/ SetRootUndefined
    \/ \E id \in Ids, src \in RootSources : SetRoot(id, src)
    \/ \E id \in Ids : ToggleUnknown(id)
    \/ \E id \in Ids : ToggleFetch(id)
    \/ \E id \in Ids : ToggleFetchThrows(id)
    \/ \E id \in Ids : ToggleFlip(id)
    \/ \E id \in Ids : Resolve(id)
    \/ \E id \in Ids : ResolveUnknown(id)
    \/ \E id \in Ids : ResolveUndefined(id)
    \/ \E id \in Ids : Reject(id)
    \/ RedrawNone
    \/ Redraw
    \/ RedrawThrows
    \/ \E size \in 1..MaxSize : Resize(size)
    \/ \E size \in 1..MaxSize : ResizeThrows(size)
    \/ CenterNode
    \/ Reload
    \/ NodeTransitionEnd
    \/ TransitionEnd

Spec == Init /\ [][Next]_vars

\* ================================================================ claims
\* The rendered elements: the g.node and path.link elements that exist in the
\* container, those in an exit transition included.
RenderedNodes == nodeElems
RenderedLinks == linkElems

\* Those of them that are not on their way out (the update and enter
\* selections of the last pass).
StayingNodes == nodeElems \ nodeExit
StayingLinks == linkElems \ linkExit

\* The step just taken was the operation op (or nothing changed at all).
Did(op) == last'.op = op

\* The identifiers that appear in a parent-child edge of the tree rooted at
\* id, following _children whether or not a node is opened.
RECURSIVE FullTree(_, _)
FullTree(nd, id) ==
    {id} \cup (IF Fetched(nd, id)
               THEN UNION {FullTree(nd, c) : c \in Range(Val(nd[id].children))}
               ELSE {})
EdgeIds(nd, id) == IF Cardinality(FullTree(nd, id)) > 1 THEN FullTree(nd, id) ELSE {}

\* C1: when a get-children(id) promise resolves with a sequence of children,
\* every child is registered under its identifier (so many new entries as
\* there are children not registered before), id has fetched children, its
\* isOpened is the negation of what it was, and one render pass is made.
C1_ResolveStoresChildren ==
    [][(Did("resolve") /\ last'.result # Undefined) =>
         LET id == last'.id
             kids == Range(Val(last'.result))
         IN /\ \A c \in kids : c \in DOMAIN nodeData' /\ nodeData'[c] = NewNode
            /\ Cardinality(DOMAIN nodeData') =
                   Cardinality(DOMAIN nodeData) + Cardinality(kids \ DOMAIN nodeData)
            /\ Fetched(nodeData', id)
            /\ id \in DOMAIN nodeData
            /\ nodeData'[id].isOpened = ~nodeData[id].isOpened
            /\ Renders(last') = 1]_vars

\* C2: every toggle(id) on a registered node without fetched children calls
\* get-children(id) exactly once and, unless that call throws, adds one
\* pending promise for id, however many are pending already; nothing else
\* changes.
C2_OneFetchPerToggle ==
    [][(Did("toggle") /\ last'.id \in DOMAIN nodeData /\ ~Fetched(nodeData, last'.id)) =>
         /\ last'.calls = <<GetChildrenCall(last'.id)>>
         /\ pending' = IF last'.err THEN pending
                       ELSE [pending EXCEPT ![last'.id] = @ + 1]
         /\ UNCHANGED <<nodeData, currentId, dom>>]_vars

\* C2, witness: two get-children promises for the same node are pending, the
\* second one issued by the toggle just made.
C2_Witness ==
    /\ last.op = "toggle"
    /\ Fetches(last) = 1
    /\ pending[last.id] = 2

\* C3: toggle(id) on a node with fetched children negates its isOpened, makes
\* exactly one render pass and calls get-children not at all.
C3_ToggleFetchedFlips ==
    [][(Did("toggle") /\ Fetched(nodeData, last'.id)) =>
         /\ nodeData'[last'.id].isOpened = ~nodeData[last'.id].isOpened
         /\ Renders(last') = 1
         /\ Fetches(last') = 0
         /\ pending' = pending]_vars

\* C3, witness: a toggle has just collapsed a node that was open.
C3_Witness ==
    /\ last.op = "toggle"
    /\ Renders(last) = 1
    /\ Fetched(nodeData, last.id)
    /\ ~nodeData[last.id].isOpened

\* C4: setRoot(undefined) changes nothing (registry, flags, current root,
\* rendered nodes and links) and calls no host callback.
C4_SetRootUndefinedNoop ==
    [][(Did("setRoot") /\ last'.id = NoId) =>
         /\ UNCHANGED <<nodeData, currentId, nextId, nodeSize, pending, dom>>
         /\ last'.calls = NoCalls]_vars

\* C4, witness: setRoot(undefined) was called with a root set, records
\* registered and nodes rendered.
C4_Witness ==
    /\ last.op = "setRoot"
    /\ last.id = NoId
    /\ currentId # NoId
    /\ \E id \in DOMAIN nodeData : IsOpen(nodeData, id)
    /\ StayingNodes # {}

\* C5: setRoot(root) registers root under root.id, makes root.id the current
\* root and makes exactly one render pass, whose prune-nodes call is given
\* that record.
C5_SetRootStoresAndRenders ==
    [][(Did("setRoot") /\ last'.id # NoId) =>
         /\ last'.id \in DOMAIN nodeData'
         /\ nodeData'[last'.id] = Val(last'.root)
         /\ currentId' = last'.id
         /\ Renders(last') = 1
         /\ last'.calls[1] = PruneCall(last'.id)]_vars

\* C5, witness: setRoot was given a new object for an identifier whose
\* registered record had fetched children, while another root was current.
C5_Witness ==
    /\ last.op = "setRoot"
    /\ last.id # NoId
    /\ last.replaced = {last.id}
    /\ ~Fetched(nodeData, last.id)
    /\ Cardinality(DOMAIN nodeData) > 1

\* C6, as stated: after a render pass in which prune-nodes returned a tree
\* of K nodes, the node elements that exist in the container are exactly
\* these K nodes, by identifier, and the link elements are K-1, one per node
\* other than the root, by the identifier of its target; when it returned
\* nothing, there are none.
C6_RenderedMatchesPruned ==
    last.pruned # Undefined =>
        LET tree == Val(last.pruned)
            K == Cardinality(tree)
        IN /\ RenderedNodes = tree
           /\ Cardinality(RenderedNodes) = K
           /\ RenderedLinks = tree \ {currentId}
           /\ Cardinality(RenderedLinks) = IF K = 0 THEN 0 ELSE K - 1

\* C6, amended: after a render pass in which prune-nodes returned a tree of
\* K nodes, the node elements not in an exit transition are exactly these K
\* nodes and the link elements not in an exit transition are the K-1 links
\* to the nodes other than the root (none when nothing was returned); the
\* elements of earlier passes that are not in the tree stay in the
\* container, exiting, until their transition ends, and once the exit
\* transitions of the nodes (of the links) have ended exactly K node
\* elements (K-1 link elements) exist.
C6_StayingMatchesPruned ==
    last.pruned # Undefined =>
        LET tree == Val(last.pruned)
            K == Cardinality(tree)
        IN /\ nodeExit \subseteq nodeElems
           /\ linkExit \subseteq linkElems
           /\ nodeElems \ nodeExit = tree
           /\ Cardinality(nodeElems \ nodeExit) = K
           /\ linkElems \ linkExit = tree \ {currentId}
           /\ Cardinality(linkElems \ linkExit) = IF K = 0 THEN 0 ELSE K - 1
           /\ nodeExit = {} => Cardinality(nodeElems) = K
           /\ linkExit = {} => Cardinality(linkElems) = IF K = 0 THEN 0 ELSE K - 1

\* C6, witness: a pass has collapsed an open root: prune-nodes returned the
\* root alone, and the two children and their links are still in the
\* container, exiting.
C6_Witness ==
    /\ Renders(last) = 1
    /\ last.pruned # Undefined
    /\ Cardinality(Val(last.pruned)) = 1
    /\ Cardinality(nodeElems) = 3
    /\ Cardinality(nodeExit) = 2
    /\ Cardinality(linkExit) = 2

\* C7: when a get-children promise resolves with undefined, nothing changes,
\* no callback is called and nothing is thrown.
C7_ResolveUndefinedNoop ==
    [][Did("resolveUndefined") =>
         /\ UNCHANGED <<nodeData, currentId, nextId, nodeSize, dom>>
         /\ last'.calls = NoCalls
         /\ ~last'.err]_vars

\* C7, witness: a promise for a registered node resolved with undefined and
\* the node is still without fetched children.
C7_Witness ==
    /\ last.op = "resolveUndefined"
    /\ last.id \in DOMAIN nodeData
    /\ ~Fetched(nodeData, last.id)
    /\ StayingNodes # {}

\* C8: except by reload, no identifier ever leaves the registry.
C8_RegistryKeepsKeys ==
    [][~Did("reload") => (DOMAIN nodeData) \subseteq (DOMAIN nodeData')]_vars

\* C8, witness: every node of the host is registered and an operation has
\* just stored over registered identifiers.
C8_Witness ==
    /\ DOMAIN nodeData = Ids
    /\ last.replaced # {}

\* C9: except by reload, a record once registered keeps what was written
\* into it: a node with fetched children still has them after every
\* setRoot, toggle and resolution.
C9_RecordsNeverReplaced ==
    [][~Did("reload") =>
         \A id \in DOMAIN nodeData :
            Fetched(nodeData, id) => (id \in DOMAIN nodeData' /\ Fetched(nodeData', id))]_vars

\* C10: in every render pass, every identifier in a parent-child edge of the
\* tree rooted at the current root is registered.
C10_EdgesRegistered ==
    Renders(last) > 0 => EdgeIds(nodeData, currentId) \subseteq DOMAIN nodeData

\* C11: right after reload() the registry is empty, there is no current root
\* and nextId is 0, whatever was done before.
C11_ReloadResetsAll ==
    [][Did("reload") =>
         /\ nodeData' = EmptyMap
         /\ currentId' = NoId
         /\ nextId' = 0]_vars

\* C12: in every state redraw() either makes exactly one render pass rooted at
\* the current root (when there is one) or does nothing and calls nothing
\* (when there is none); it throws nothing and leaves the registry, the
\* flags and the current root as they were.
C12_RedrawRendersOrNoop ==
    [][Did("redraw") =>
         /\ ~last'.err
         /\ IF currentId # NoId
            THEN Renders(last') = 1 /\ last'.calls[1] = PruneCall(currentId)
            ELSE last'.calls = NoCalls /\ UNCHANGED <<nextId, nodeSize, pending, dom>>
         /\ UNCHANGED <<nodeData, currentId>>]_vars

\* C13: in every state, with or without a current root, resize sets the node
\* size it is given and makes a render pass without throwing; the registry,
\* the flags and the current root are unchanged, and the nodes rendered
\* afterwards are those a redraw in the same state would render (what
\* prune-nodes returns for the current root, or, without a current root, the
\* nodes rendered before).
C13_ResizeKeepsNodes ==
    [][Did("resize") =>
         /\ ~last'.err
         /\ nodeSize' = last'.id
         /\ Renders(last') = 1
         /\ UNCHANGED <<nodeData, currentId>>
         /\ StayingNodes' \in (IF Falsy(currentId) THEN {StayingNodes}
                                ELSE PruneNodes(nodeData, currentId))]_vars

\* C14: every render pass calls prune-nodes exactly once, for the registered
\* record of the current root, before any add-nodes or update-nodes call;
\* add-nodes is called exactly once, with the entering elements, and the
\* next call is update-nodes with the same elements.
C14_PassCallsInOrder ==
    [][Renders(last') > 0 =>
         LET c == last'.calls
         IN /\ Renders(last') = 1
            /\ c[1] = PruneCall(currentId')
            /\ currentId' \in DOMAIN nodeData'
            /\ CountCalls(c, "add-nodes") = 1
            /\ \E i \in DOMAIN c :
                  /\ c[i].cb = "add-nodes"
                  /\ c[i].keys = StayingNodes' \ nodeElems
                  /\ i + 1 \in DOMAIN c
                  /\ c[i + 1] = UpdateCall(c[i].keys)]_vars

\* C14, witness: a pass in which some elements entered and others were
\* already there.
C14_Witness ==
    /\ Renders(last) = 1
    /\ \E i, j \in DOMAIN last.calls :
          /\ i < j
          /\ last.calls[i].cb = "update-nodes" /\ last.calls[i].keys # {}
          /\ last.calls[j].cb = "add-nodes" /\ last.calls[j].keys # {}

\* C15: neither toggle(id) nor the resolution of a fetch it issued changes
\* the current root, whatever setRoot did in between; the render pass it
\* makes is rooted at the root current at that moment; and the isOpened of
\* every registered node other than id is what it was.
C15_TogglePreservesRoot ==
    [][(Did("toggle") \/ Did("resolve") \/ Did("resolveUndefined")) =>
         /\ currentId' = currentId
         /\ Renders(last') > 0 => last'.calls[1] = PruneCall(currentId)
         /\ \A n \in (DOMAIN nodeData) \ {last'.id} :
               /\ n \in DOMAIN nodeData'
               /\ nodeData'[n].isOpened = nodeData[n].isOpened]_vars

\* A fetch of a registered node has just failed: its promise was rejected, or
\* get-children threw inside toggle.
FetchFailed(l, nd) ==
    \/ l.op = "reject"
    \/ l.op = "toggle" /\ l.err /\ l.id \in DOMAIN nd

\* C16, as stated: when a get-children promise is rejected, or get-children
\* throws, the failure goes unhandled; the registry, the flags, the current
\* root and the rendered elements are unchanged and no render pass is made;
\* the node is without fetched children afterwards and the next toggle(id)
\* calls get-children(id); the controller itself calls it no second time.
C16_FailedFetchStillUnfetched ==
    [][/\ FetchFailed(last', nodeData) =>
            /\ last'.err
            /\ UNCHANGED <<nodeData, currentId, nextId, nodeSize, dom>>
            /\ Renders(last') = 0
            /\ last'.id \in DOMAIN nodeData'
            /\ nodeData'[last'.id].children = Undefined
            /\ IF Did("reject")
               THEN /\ Fetches(last') = 0
                    /\ pending' = [pending EXCEPT ![last'.id] = @ - 1]
               ELSE /\ Fetches(last') = 1
                    /\ pending' = pending
       /\ (/\ FetchFailed(last, nodeData)
           /\ Did("toggle")
           /\ last'.id = last.id) => Fetches(last') = 1]_vars

\* C16, amended: when a get-children promise is rejected, or get-children
\* throws, the failure goes unhandled; the registry, the flags, the current
\* root and the rendered elements are unchanged and no render pass is made;
\* a rejected promise is gone and a throwing call leaves none, and the
\* controller itself calls get-children no second time.  The node is as it
\* was: if it is registered and without fetched children, the next
\* toggle(id) calls get-children(id); if another promise for it had resolved
\* before, it has its children and the next toggle(id) only flips it and
\* renders; if reload() has emptied the registry, the next toggle(id) throws
\* and calls nothing.
C16_FailedFetchLeavesState ==
    [][/\ FetchFailed(last', nodeData) =>
            /\ last'.err
            /\ UNCHANGED <<nodeData, currentId, nextId, nodeSize, dom>>
            /\ Renders(last') = 0
            /\ Fetched(nodeData', last'.id) = Fetched(nodeData, last'.id)
            /\ IF Did("reject")
               THEN /\ Fetches(last') = 0
                    /\ pending' = [pending EXCEPT ![last'.id] = @ - 1]
               ELSE /\ Fetches(last') = 1
                    /\ pending' = pending
       /\ (/\ FetchFailed(last, nodeData)
           /\ Did("toggle")
           /\ last'.id = last.id) =>
              IF last.id \notin DOMAIN nodeData
              THEN last'.err /\ last'.calls = NoCalls
              ELSE IF nodeData[last.id].children = Undefined
                   THEN Fetches(last') = 1 /\ Renders(last') = 0
                   ELSE /\ ~last'.err
                        /\ Fetches(last') = 0
                        /\ Renders(last') = 1
                        /\ nodeData'[last.id].isOpened = ~nodeData[last.id].isOpened]_vars

\* C16, witness: the only pending promise of a registered node that stays in
\* the container was rejected and the node is without fetched children.
C16_Witness ==
    /\ last.op = "reject"
    /\ last.id \in DOMAIN nodeData
    /\ ~Fetched(nodeData, last.id)
    /\ pending[last.id] = 0
    /\ last.id \in StayingNodes

\* C17: every get-children promise that resolves with a sequence flips the
\* isOpened of its node exactly once, at its resolution, makes one render
\* pass and leaves the children it brought in the record; a node without
\* fetched children is collapsed.  So of two promises pending for one
\* unfetched node, the first resolution opens it and the second collapses
\* it again, with two passes and the children of the second in the registry.
C17_EachResolutionFlipsOnce ==
    [][Did("resolve") =>
         LET id == last'.id
         IN /\ ~last'.err
            /\ id \in DOMAIN nodeData
            /\ nodeData'[id].isOpened = ~nodeData[id].isOpened
            /\ nodeData'[id].children = last'.result
            /\ Renders(last') = 1
            /\ pending' = [pending EXCEPT ![id] = @ - 1]
            /\ \A n \in DOMAIN nodeData' :
                  ~Fetched(nodeData', n) => ~nodeData'[n].isOpened]_vars

\* C18: a resolution with a sequence, empty or not, leaves _children defined
\* in the record; and as long as that record is not replaced and reload is
\* not called, _children stays defined, every toggle(id) only negates
\* isOpened and makes one render pass, and no operation calls
\* get-children(id).
C18_FetchedStaysFetched ==
    [][/\ (Did("resolve") /\ ~last'.err) =>
              nodeData'[last'.id].children = last'.result
       /\ ~Did("reload") =>
              \A id \in (DOMAIN nodeData) \ last'.replaced :
                 nodeData[id].children # Undefined =>
                    /\ id \in DOMAIN nodeData'
                    /\ nodeData'[id].children # Undefined
                    /\ \A i \in DOMAIN last'.calls :
                          last'.calls[i] # GetChildrenCall(id)
                    /\ (Did("toggle") /\ last'.id = id) =>
                          /\ ~last'.err
                          /\ nodeData'[id].isOpened = ~nodeData[id].isOpened
                          /\ Renders(last') = 1
                          /\ pending' = pending]_vars

\* C18, witness: a node whose fetch resolved with an empty sequence has been
\* toggled again: it was only flipped (collapsed) and rendered.
C18_Witness ==
    /\ last.op = "toggle"
    /\ ~last.err
    /\ last.id \in DOMAIN nodeData
    /\ nodeData[last.id].children = Some(<<>>)
    /\ ~nodeData[last.id].isOpened
    /\ Fetches(last) = 0
    /\ Renders(last) = 1

\* C19: in every reachable state the identifier of every pending
\* get-children promise is registered, so that its resolution can write
\* _children into the record.
C19_PendingAreRegistered ==
    \A id \in Ids : pending[id] > 0 => id \in DOMAIN nodeData

====
